---- MODULE Spec2Model ----
(***************************************************************************)
(* model_loader.rs of io_rose is a patch fragment: three header comment    *)
(* lines followed by three pairs of a deleted ("-") log statement and the  *)
(* added ("+") comment line that replaces it.  The model holds the         *)
(* fragment as data, applies it line by line to a region of the loader     *)
(* that contains the three log statements among statements the fragment    *)
(* does not show, and runs the region before or after the edit to see      *)
(* which call sites hand a record to the logger.                           *)
(***************************************************************************)
EXTENDS Integers, Sequences, FiniteSets, TLC

\* ------------------------------------------------------------------ bounds
\* Largest number of statements the fragment does not show that may stand
\* before, between and after the three log statements.
MaxGap == 1
\* Largest number of records kept in the log of one run.
MaxLog == 2

\* ------------------------------------------------- the fragment, tokenised
\* A line is its indentation and its tokens; "//" is the Rust line-comment
\* token and everything after it on the line is comment text.

\* line 4, after the sign column
MinusDebug ==
    [indent |-> 12,
     toks |-> <<"log::debug!", "(", "\"Parsing ZON file: {:?}\"", ",",
                "zon_data", ")", ";">>]

PlusDebugUncommented ==
    [indent |-> 12,
     toks |-> <<"log::debug!", "(", "\"Parsing ZON file: {:?}\"", ",",
                "zon_data", ")", ";", "//", "removed for performance">>]

\* line 5, after the sign column
PlusDebug ==
    [indent |-> 12,
     toks |-> <<"//", "log::debug!", "(", "\"Parsing ZON file: {:?}\"", ",",
                "zon_data", ")", ";", "//", "removed for performance">>]

\* line 6
MinusInfo ==
    [indent |-> 12,
     toks |-> <<"log::info!", "(", "\"Loaded ZON zone with {} tiles\"", ",",
                "zon_data", ".", "tiles", ".", "len", "(", ")", ")", ";">>]

\* line 7
PlusInfo ==
    [indent |-> 12,
     toks |-> <<"//", "log::info!", "(", "\"Loaded ZON zone with {} tiles\"",
                ",", "zon_data", ".", "tiles", ".", "len", "(", ")", ")", ";",
                "//", "removed for performance">>]

\* line 8
MinusWarn ==
    [indent |-> 12,
     toks |-> <<"log::warn!", "(",
                "\"Skipping texture alignment for tile {}\"", ",",
                "tile_index", ")", ";">>]

\* line 9
PlusWarn ==
    [indent |-> 12,
     toks |-> <<"//", "log::warn!", "(",
                "\"Skipping texture alignment for tile {}\"", ",",
                "tile_index", ")", ";", "//", "removed for performance">>]

\* The whole file, lines 1..9: sign is the first column of a diff line and
\* "" for the header lines, which have none.
PatchFile ==
    << [sign |-> "", line |-> [indent |-> 0, toks |->
          <<"//", "Remove excessive logging statements from model_loader.rs">>]],
       [sign |-> "", line |-> [indent |-> 0, toks |->
          <<"//", "Example: remove debug! and info! calls that cause performance issues">>]],
       [sign |-> "", line |-> [indent |-> 0, toks |->
          <<"//", "... show before and after? Actually we need to show changes: we can show the lines to delete.">>]],
       [sign |-> "-", line |-> MinusDebug],
       [sign |-> "+", line |-> PlusDebug],
       [sign |-> "-", line |-> MinusInfo],
       [sign |-> "+", line |-> PlusInfo],
       [sign |-> "-", line |-> MinusWarn],
       [sign |-> "+", line |-> PlusWarn] >>

PatchEnd == Len(PatchFile) + 1

\* The three statements the fragment deletes.
Deleted == {PatchFile[k].line : k \in {j \in 1..Len(PatchFile) : PatchFile[j].sign = "-"}}

\* ------------------------------------------------------------ Rust lexing
\* Index of the first "//" token of a token sequence, Len + 1 when none.
RECURSIVE FirstSlash(_, _)
FirstSlash(toks, i) ==
    IF i > Len(toks) THEN i
    ELSE IF toks[i] = "//" THEN i
    ELSE FirstSlash(toks, i + 1)

\* The code of a line: its tokens up to the line comment.
CodeOf(line) == SubSeq(line.toks, 1, FirstSlash(line.toks, 1) - 1)

\* A line executes something when code remains once the comment is cut off.
IsExecutable(line) == CodeOf(line) # <<>>

LogMacros == {"log::debug!", "log::info!", "log::warn!"}

IsLogCall(line) == IsExecutable(line) /\ CodeOf(line)[1] \in LogMacros

\* The level a log macro logs at, as the place of the level among
\* error(1) < warn(2) < info(3) < debug(4) < trace(5).
LevelOf(macro) ==
    CASE macro = "log::warn!" -> 2
      [] macro = "log::info!" -> 3
      [] macro = "log::debug!" -> 4

\* The maximum levels a build or a logger can set: off(0) .. trace(5).
LevelFilters == 0..5

\* A comment line carries a statement when the statement's tokens follow
\* the leading "//" and the indentation is the statement's.
Carries(comment, stmt) ==
    /\ comment.indent = stmt.indent
    /\ Len(comment.toks) > Len(stmt.toks)
    /\ comment.toks[1] = "//"
    /\ SubSeq(comment.toks, 2, Len(stmt.toks) + 1) = stmt.toks

\* --------------------------------------------------------- the loader region
\* A statement of the loader that the fragment does not show; the n-th one
\* of the region is told from the others by its name.
HiddenNames ==
    <<"hidden_1", "hidden_2", "hidden_3", "hidden_4", "hidden_5", "hidden_6",
      "hidden_7", "hidden_8", "hidden_9", "hidden_10", "hidden_11", "hidden_12">>

Other(n) == [indent |-> 12, toks |-> <<HiddenNames[n], "(", ")", ";">>]

\* g[1] hidden statements, the debug! call, g[2] hidden statements, the
\* info! call, g[3], the warn! call, g[4]; the hidden ones numbered in order.
Pad(from, n) == [k \in 1..n |-> Other(from + k - 1)]

Region(g) ==
    Pad(1, g[1]) \o <<MinusDebug>> \o
    Pad(1 + g[1], g[2]) \o <<MinusInfo>> \o
    Pad(1 + g[1] + g[2], g[3]) \o <<MinusWarn>> \o
    Pad(1 + g[1] + g[2] + g[3], g[4])

VARIABLES
    orig,      \* the region before the edit
    file,      \* the region as edited so far
    pidx,      \* the next line of the fragment to apply
    cur,       \* where the last "-" line was deleted
    maxLevel,  \* the logger's maximum level
    running,   \* the region is being executed (no more edits)
    last,      \* the line the run executed last, 0 before the first
    log        \* the records the run handed to the logger

vars == <<orig, file, pidx, cur, maxLevel, running, last, log>>

Init ==
    /\ \E g \in [1..4 -> 0..MaxGap] : orig = Region(g)
    /\ file = orig
    /\ pidx = 1
    /\ cur = 0
    /\ maxLevel \in LevelFilters
    /\ running = FALSE
    /\ last = 0
    /\ log = <<>>

\* ------------------------------------------------------- applying the edit
RemoveAt(f, j) == SubSeq(f, 1, j - 1) \o SubSeq(f, j + 1, Len(f))

InsertAtEnd(f, j, l) == Append(f, l)

InsertAt(f, j, l) == SubSeq(f, 1, j - 1) \o <<l>> \o SubSeq(f, j, Len(f))

\* The first place at or after position from where the line stands, 0 if none.
Matches(f, from, l) == {j \in from..Len(f) : f[j] = l}

FindFrom(f, from, l) ==
    IF Matches(f, from, l) = {} THEN 0
    ELSE CHOOSE j \in Matches(f, from, l) : \A k \in Matches(f, from, l) : j <= k

\* A header line of the fragment edits nothing.
SkipNote ==
    /\ ~running
    /\ pidx < PatchEnd
    /\ PatchFile[pidx].sign = ""
    /\ pidx' = pidx + 1
    /\ UNCHANGED <<orig, file, cur, maxLevel, running, last, log>>

\* A "-" line: the statement is deleted where it stands.
ApplyMinus ==
    /\ ~running
    /\ pidx < PatchEnd
    /\ PatchFile[pidx].sign = "-"
    /\ LET j == FindFrom(file, IF cur = 0 THEN 1 ELSE cur, PatchFile[pidx].line)
       IN /\ j # 0
          /\ file' = RemoveAt(file, j)
          /\ cur' = j
    /\ pidx' = pidx + 1
    /\ UNCHANGED <<orig, maxLevel, running, last, log>>

\* A "+" line: the line is added where the "-" line before it was deleted.
ApplyPlus ==
    /\ ~running
    /\ pidx < PatchEnd
    /\ PatchFile[pidx].sign = "+"
    /\ file' = InsertAt(file, cur, PatchFile[pidx].line)
    /\ cur' = cur + 1
    /\ pidx' = pidx + 1
    /\ UNCHANGED <<orig, maxLevel, running, last, log>>

\* ------------------------------------------------------- running the region
\* The region is built and run between two replacements, never with a
\* statement deleted and its replacement still to come.
Launch ==
    /\ ~running
    /\ IF pidx = PatchEnd THEN TRUE ELSE PatchFile[pidx].sign # "+"
    /\ running' = TRUE
    /\ UNCHANGED <<orig, file, pidx, cur, maxLevel, last, log>>

\* The record a log call at line i hands over.
RecordOf(i, line) ==
    [site |-> i, level |-> LevelOf(CodeOf(line)[1]), msg |-> CodeOf(line)[3]]

Enabled(line, max) == LevelOf(CodeOf(line)[1]) <= max

\* Control reaches line i (the loader's control flow is not shown: any line
\* may be reached, any number of times).  A comment does nothing, a log call
\* hands over a record when its level is enabled.
Visit(i) ==
    /\ running
    /\ i \in 1..Len(file)
    /\ Len(log) < MaxLog
    /\ last' = i
    /\ log' = IF IsLogCall(file[i]) /\ Enabled(file[i], maxLevel)
              THEN Append(log, RecordOf(i, file[i]))
              ELSE log
    /\ UNCHANGED <<orig, file, pidx, cur, maxLevel, running>>

Next ==
    \/ SkipNote
    \/ ApplyMinus
    \/ ApplyPlus
    \/ Launch
    \/ \E i \in 1..Len(file) : Visit(i)

Spec == Init /\ [][Next]_vars

\* --------------------------------------------------------------- the claims
\* The places of the three edited call sites in the region.
EditedSites == {i \in 1..Len(orig) : orig[i] \in Deleted}

EditedMessages == {l.toks[3] : l \in Deleted}

Patched == pidx = PatchEnd

\* C2: once the patch is applied, whatever the log level, no run of the
\* region gets a record from any of the three edited call sites: none of
\* the debug! "Parsing ZON file", info! "Loaded ZON zone with {} tiles" and
\* warn! "Skipping texture alignment for tile {}" records is produced.
C2_NoRecordFromEditedSites ==
    (Patched /\ running) =>
        \A k \in 1..Len(log) :
            /\ log[k].site \notin EditedSites
            /\ log[k].msg \notin EditedMessages

\* A patched run at the most verbose level has just passed an edited site
\* and the log is still empty.
C2_Witness ==
    /\ Patched
    /\ running
    /\ maxLevel = 5
    /\ last \in EditedSites
    /\ log = <<>>

\* C4: the patch replaces one for one and in place: after it, the region
\* has as many lines as before, every line that is not one of the three
\* log statements is the same line at the same place, and where a log
\* statement stood there is one comment line, executing nothing, that
\* carries the statement's text.
C4_InPlaceReplacement ==
    Patched =>
        /\ Len(file) = Len(orig)
        /\ \A i \in 1..Len(orig) :
              IF orig[i] \in Deleted
              THEN /\ ~IsExecutable(file[i])
                   /\ Carries(file[i], orig[i])
              ELSE file[i] = orig[i]

\* The patch is applied to a region with hidden statements before, between
\* and after the three sites.
C4_Witness ==
    /\ Patched
    /\ Len(orig) = 3 + 4 * MaxGap
    /\ file # orig
====
